---- MODULE Spec2Model ----
(***************************************************************************)
(* NeuroChatAI (streamlit_app.py): the conversational request pipeline.    *)
(*                                                                         *)
(* Text is a sequence of one-character strings, so that formatting,        *)
(* joining and stripping are computed and not assumed.  One action is one  *)
(* Streamlit script run of main() triggered by one widget event.  The      *)
(* session state is the record ss of the session keys the pipeline uses    *)
(* (messages, system_prompt, last_request_time); api_health,               *)
(* last_api_check and chat_style are written once by                       *)
(* initialize_session_state and never read, and are left out.  The         *)
(* settings widgets api_url, model_name, temperature and max_tokens only   *)
(* travel into the payload and are left out of it.                         *)
(***************************************************************************)
EXTENDS Integers, Sequences, FiniteSets, TLC

\* ---------------------------------------------------------------- bounds
\* longest stored message log that a turn may still extend
MaxLog == 2
\* largest history window MAX_HISTORY_MESSAGES (environment variable)
MaxWindow == 1
\* largest rate-limit interval RATE_LIMIT_SECONDS, in clock ticks
MaxInterval == 2
\* number of clock ticks the clock may advance after start-up
Horizon == 2
\* number of PREDEFINED_PROMPTS buttons that are modelled
MaxQuick == 1

\* time.time() at start-up: seconds since the epoch, far more than any
\* interval, so the first gate after last_request_time = 0 always passes
StartTime == MaxInterval + 1
MaxTime == StartTime + Horizon

\* ------------------------------------------------------------------ text
Whitespace == {" ", "\n", "\t"}

Hi == <<"H", "i">>
PaddedHi == <<" ", "h", "i", " ">>
TrimmedHi == <<"h", "i">>
Blank == <<" ">>
No == <<"n", "o">>
BeTerse == <<"B", "e", " ", "t", "e", "r", "s", "e", ".">>

DEFAULT_SYSTEM_PROMPT ==
    <<"Y", "o", "u", " ", "a", "r", "e", " ", "a", " ", "h", "e", "l", "p", "f", "u",
       "l", " ", "A", "I", " ", "a", "s", "s", "i", "s", "t", "a", "n", "t", ".", " ",
       "\n", " ", " ", " ", " ", " ", " ", " ", " ", "Y", "o", "u", " ", "p", "r", "o",
       "v", "i", "d", "e", " ", "c", "l", "e", "a", "r", ",", " ", "a", "c", "c", "u",
       "r", "a", "t", "e", ",", " ", "a", "n", "d", " ", "c", "o", "n", "c", "i", "s",
       "e", " ", "r", "e", "s", "p", "o", "n", "s", "e", "s", " ", "w", "h", "i", "l",
       "e", " ", "b", "e", "i", "n", "g", " ", "f", "r", "i", "e", "n", "d", "l", "y",
       " ", "a", "n", "d", " ", "p", "r", "o", "f", "e", "s", "s", "i", "o", "n", "a",
       "l", ".">>

PREDEFINED_PROMPTS ==
    << <<"T", "e", "l", "l", " ", "m", "e", " ", "a", " ", "j", "o", "k", "e", " ", "a",
         "b", "o", "u", "t", " ", "p", "r", "o", "g", "r", "a", "m", "m", "i", "n", "g",
         ".">>,
       <<"E", "x", "p", "l", "a", "i", "n", " ", "h", "o", "w", " ", "A", "P", "I", "s",
         " ", "w", "o", "r", "k", " ", "i", "n", " ", "s", "i", "m", "p", "l", "e", " ",
         "t", "e", "r", "m", "s", ".">>,
       <<"W", "r", "i", "t", "e", " ", "a", " ", "s", "h", "o", "r", "t", " ", "P", "y",
         "t", "h", "o", "n", " ", "f", "u", "n", "c", "t", "i", "o", "n", " ", "t", "o",
         " ", "c", "a", "l", "c", "u", "l", "a", "t", "e", " ", "f", "i", "b", "o", "n",
         "a", "c", "c", "i", " ", "n", "u", "m", "b", "e", "r", "s", ".">>,
       <<"W", "h", "a", "t", " ", "a", "r", "e", " ", "t", "h", "e", " ", "b", "e", "s",
         "t", " ", "p", "r", "a", "c", "t", "i", "c", "e", "s", " ", "f", "o", "r", " ",
         "c", "o", "d", "e", " ", "d", "o", "c", "u", "m", "e", "n", "t", "a", "t", "i",
         "o", "n", "?">>,
       <<"G", "e", "n", "e", "r", "a", "t", "e", " ", "a", " ", "c", "r", "e", "a", "t",
         "i", "v", "e", " ", "s", "t", "o", "r", "y", " ", "a", "b", "o", "u", "t", " ",
         "A", "I", " ", "a", "n", "d", " ", "h", "u", "m", "a", "n", "s", " ", "w", "o",
         "r", "k", "i", "n", "g", " ", "t", "o", "g", "e", "t", "h", "e", "r", ".">> >>

SystemPrefix == <<"S", "y", "s", "t", "e", "m", ":", " ">>
HumanRole == <<"H", "u", "m", "a", "n", ":">>
AssistantRole == <<"A", "s", "s", "i", "s", "t", "a", "n", "t", ":">>
Newline == <<"\n">>
Space == <<" ">>

\* str.strip(): the text without its leading and trailing whitespace
strip_leading_only(s) ==
    LET keep == {i \in 1..Len(s) : s[i] \notin Whitespace}
    IN  IF keep = {} THEN <<>>
        ELSE SubSeq(s, CHOOSE i \in keep : \A j \in keep : i <= j, Len(s))

strip(s) ==
    LET keep == {i \in 1..Len(s) : s[i] \notin Whitespace}
    IN  IF keep = {} THEN <<>>
        ELSE SubSeq(s, CHOOSE i \in keep : \A j \in keep : i <= j,
                       CHOOSE i \in keep : \A j \in keep : i >= j)

\* sep.join(parts)
RECURSIVE join(_, _)
join(sep, parts) ==
    IF parts = <<>> THEN <<>>
    ELSE IF Len(parts) = 1 THEN parts[1]
    ELSE parts[1] \o sep \o join(sep, Tail(parts))

\* lst[start:] with Python's rules for a negative or too large start
slice_from(lst, start) ==
    LET n == Len(lst)
        from == IF start < 0 THEN (IF n + start < 0 THEN 0 ELSE n + start)
                ELSE (IF start > n THEN n ELSE start)
    IN  SubSeq(lst, from + 1, n)

\* the lines of a text: text.split("\n")
RECURSIVE split_lines(_)
split_lines(s) ==
    LET nl == {i \in 1..Len(s) : s[i] = "\n"}
    IN  IF nl = {} THEN <<s>>
        ELSE LET k == CHOOSE i \in nl : \A j \in nl : i <= j
             IN  <<SubSeq(s, 1, k - 1)>> \o split_lines(SubSeq(s, k + 1, Len(s)))

IsPrefix(s, t) == Len(s) <= Len(t) /\ SubSeq(t, 1, Len(s)) = s

\* --------------------------------------------------------------- notices
Warning(text) == [level |-> "warning", text |-> text]
Error(text) == [level |-> "error", text |-> text]
Success(text) == [level |-> "success", text |-> text]

RateLimitWarning == Warning("Please wait RATE_LIMIT_SECONDS seconds between messages.")
EmptyWarning == Warning("Please enter a non-empty message.")
TimeoutError == Error("Request timed out. Please try again.")
ApiError == Error("API Error: str(e)")
InvalidResponseError == Error("Invalid response from API")
NoValidResponseError == Error("Failed to get a valid response from the model.")
UnexpectedError == Error("An unexpected error occurred. Please refresh the page and try again.")
ResetSuccess == Success("Chat history has been reset.")
PromptUpdatedSuccess == Success("System prompt updated!")

\* ------------------------------------------------- the completion endpoint
\* What requests.post(...), raise_for_status() and response.json() do for one
\* call: raise an exception of class exc, or return the decoded body.
\* requests.JSONDecodeError (requests >= 2.27) is both a RequestException and
\* a json.JSONDecodeError; older builds raise the plain json.JSONDecodeError.
Raises(exc) == [exc |-> exc, hasChoices |-> FALSE, choices |-> <<>>]
Body(hasChoices, choices) == [exc |-> "none", hasChoices |-> hasChoices, choices |-> choices]
Choice(text) == [hasText |-> TRUE, text |-> text]
ChoiceWithoutText == [hasText |-> FALSE, text |-> <<>>]

Exceptions == {"Timeout", "ConnectionError", "requests.JSONDecodeError", "json.JSONDecodeError"}

Replies ==
    {Raises(e) : e \in Exceptions}
    \cup {Body(FALSE, <<>>), Body(TRUE, <<>>),
          Body(TRUE, <<Choice(PaddedHi), Choice(No)>>),
          Body(TRUE, <<ChoiceWithoutText>>)}

IsTimeout(exc) == exc = "Timeout"
IsRequestException(exc) == exc \in {"Timeout", "ConnectionError", "requests.JSONDecodeError"}
IsJSONDecodeError(exc) == exc \in {"requests.JSONDecodeError", "json.JSONDecodeError"}

\* ------------------------------------------------------------------ inputs
UserInputs == {<<>>, Blank, Hi}
SystemPrompts == {DEFAULT_SYSTEM_PROMPT, BeTerse, <<>>}
QuickPrompts == {PREDEFINED_PROMPTS[i] : i \in 1..(IF MaxQuick < Len(PREDEFINED_PROMPTS) THEN MaxQuick ELSE Len(PREDEFINED_PROMPTS))}

VARIABLES
    ss,                     \* st.session_state: messages, system_prompt, last_request_time
    MAX_HISTORY_MESSAGES,   \* module constant read from the environment
    RATE_LIMIT_SECONDS,     \* module constant read from the environment, in ticks
    now,                    \* what time.time() returns
    event,                  \* the widget event of the last script run, its input and
                            \* what the completion call did, if one was made
    notices,                \* st.warning / st.error / st.success of the last script run
    posts,                  \* payloads POSTed during the last script run
    grants                  \* times at which rate_limit_check returned True

vars == <<ss, MAX_HISTORY_MESSAGES, RATE_LIMIT_SECONDS, now, event, notices, posts, grants>>

Message(role, content) == [role |-> role, content |-> content]

\* initialize_session_state: the defaults of a new session
initialize_session_state ==
    [messages |-> <<>>, system_prompt |-> DEFAULT_SYSTEM_PROMPT, last_request_time |-> 0]

\* the reply recorded for a script run that made no completion call
NoReply == Raises("no call")
Event(op, user_input, reply) ==
    [op |-> op, user_input |-> user_input, reply |-> reply]

\* ------------------------------------------------------------ rate limiter
rate_limit_check_no_update(s, current_time) ==
    IF current_time - s.last_request_time < RATE_LIMIT_SECONDS
    THEN [ok |-> FALSE, ss |-> s, notices |-> <<RateLimitWarning>>]
    ELSE [ok |-> TRUE, ss |-> s, notices |-> <<>>]

rate_limit_check_always_stamp(s, current_time) ==
    IF current_time - s.last_request_time < RATE_LIMIT_SECONDS
    THEN [ok |-> FALSE, ss |-> [s EXCEPT !.last_request_time = current_time],
          notices |-> <<RateLimitWarning>>]
    ELSE [ok |-> TRUE, ss |-> [s EXCEPT !.last_request_time = current_time],
          notices |-> <<>>]

rate_limit_check(s, current_time) ==
    IF current_time - s.last_request_time < RATE_LIMIT_SECONDS
    THEN [ok |-> FALSE, ss |-> s, notices |-> <<RateLimitWarning>>]
    ELSE [ok |-> TRUE, ss |-> [s EXCEPT !.last_request_time = current_time],
          notices |-> <<>>]

\* ------------------------------------------------------- completion client
\* the try/except chain: the first clause whose class matches handles the
\* exception; response is None on every handled exception
send_request_to_model(payload, reply) ==
    IF reply.exc = "none"
    THEN [returned |-> TRUE, response |-> reply, notices |-> <<>>, posts |-> <<payload>>]
    ELSE [returned |-> FALSE, response |-> reply, posts |-> <<payload>>,
          notices |-> IF IsTimeout(reply.exc) THEN <<TimeoutError>>
                      ELSE IF IsRequestException(reply.exc) THEN <<ApiError>>
                      ELSE IF IsJSONDecodeError(reply.exc) THEN <<InvalidResponseError>>
                      ELSE <<>>]

\* ---------------------------------------------------------- prompt builder
format_message(msg) ==
    (IF msg.role = "user" THEN HumanRole ELSE AssistantRole) \o Space \o msg.content

\* the list history before it is joined
prompt_history(s, user_input) ==
    LET recent == slice_from(s.messages, 0 - MAX_HISTORY_MESSAGES)
    IN  (IF s.system_prompt # <<>>
         THEN <<SystemPrefix \o s.system_prompt \o Newline>> ELSE <<>>)
        \o [i \in 1..Len(recent) |-> format_message(recent[i])]
        \o <<HumanRole \o Space \o user_input>>

build_prompt_with_history(s, user_input) ==
    [prompt |-> join(Newline, prompt_history(s, user_input)) \o Newline \o AssistantRole,
     ss |-> s]

\* ------------------------------------------------------------- controller
append_message_front(s, role, content) ==
    [s EXCEPT !.messages = <<Message(role, content)>> \o @]

append_message(s, role, content) ==
    [s EXCEPT !.messages = Append(@, Message(role, content))]

Outcome(s, n, p, granted, raised) ==
    [ss |-> s, notices |-> n, posts |-> p, granted |-> granted, raised |-> raised]

\* lines 232-239: the branch on the response
handle_response_echo_failure(s, sent) ==
    LET response == sent.response
    IN  IF sent.returned /\ response.hasChoices /\ response.choices # <<>>
        THEN IF response.choices[1].hasText
             THEN Outcome(append_message(s, "assistant", strip(response.choices[1].text)),
                          sent.notices, sent.posts, TRUE, FALSE)
             ELSE Outcome(s, sent.notices, sent.posts, TRUE, TRUE)
        ELSE Outcome(append_message(s, "assistant", <<>>),
                     sent.notices \o <<NoValidResponseError>>, sent.posts, TRUE, FALSE)

handle_response(s, sent) ==
    LET response == sent.response
    IN  IF sent.returned /\ response.hasChoices /\ response.choices # <<>>
        THEN IF response.choices[1].hasText
             THEN Outcome(append_message(s, "assistant", strip(response.choices[1].text)),
                          sent.notices, sent.posts, TRUE, FALSE)
             ELSE Outcome(s, sent.notices, sent.posts, TRUE, TRUE)   \* KeyError: 'text'
        ELSE Outcome(s, sent.notices \o <<NoValidResponseError>>, sent.posts, TRUE, FALSE)

handle_user_input(s, user_input, current_time, reply) ==
    LET gate == rate_limit_check(s, current_time)
    IN  IF ~gate.ok THEN Outcome(gate.ss, gate.notices, <<>>, FALSE, FALSE)
        ELSE IF strip(user_input) = <<>>
        THEN Outcome(gate.ss, gate.notices \o <<EmptyWarning>>, <<>>, TRUE, FALSE)
        ELSE LET s1 == append_message(gate.ss, "user", user_input)
                 built == build_prompt_with_history(s1, user_input)
                 sent == send_request_to_model([prompt |-> built.prompt], reply)
             IN  handle_response(built.ss, sent)

\* main's try/except: an exception that escapes a handler is reported as an
\* unexpected error; what the handler had done up to there stays done
main_guard(out) ==
    IF out.raised THEN [out EXCEPT !.notices = @ \o <<UnexpectedError>>] ELSE out

reset_chat_all(s) ==
    [s EXCEPT !.messages = <<>>, !.system_prompt = DEFAULT_SYSTEM_PROMPT]

\* the Reset Chat button
reset_chat(s) == [s EXCEPT !.messages = <<>>]

\* the Update System Prompt button
update_system_prompt(s, text) == [s EXCEPT !.system_prompt = text]

\* ----------------------------------------------------------------- actions
Init ==
    /\ ss = initialize_session_state
    /\ MAX_HISTORY_MESSAGES \in 0..MaxWindow
    /\ RATE_LIMIT_SECONDS \in 1..MaxInterval
    /\ now = StartTime
    /\ event = Event("start", <<>>, NoReply)
    /\ notices = <<>>
    /\ posts = <<>>
    /\ grants = {}

Turn(op, user_input, reply) ==
    LET out == main_guard(handle_user_input(ss, user_input, now, reply))
    IN  /\ Len(ss.messages) < MaxLog
        /\ ss' = out.ss
        /\ notices' = out.notices
        /\ posts' = out.posts
        /\ grants' = IF out.granted THEN grants \cup {now} ELSE grants
        /\ event' = Event(op, user_input, IF out.posts # <<>> THEN reply ELSE NoReply)
        /\ UNCHANGED <<MAX_HISTORY_MESSAGES, RATE_LIMIT_SECONDS, now>>

\* main: user_input = st.chat_input(...); if user_input: handle_user_input(...)
ChatInput ==
    \E user_input \in UserInputs, reply \in Replies :
        /\ user_input # <<>>
        /\ Turn("chat_input", user_input, reply)

\* sidebar_settings: a Quick Prompts button
QuickPrompt ==
    \E prompt \in QuickPrompts, reply \in Replies :
        Turn("quick_prompt", prompt, reply)

\* sidebar_settings: the Reset Chat button
ResetChat ==
    /\ ss' = reset_chat(ss)
    /\ notices' = <<ResetSuccess>>
    /\ posts' = <<>>
    /\ event' = Event("reset", <<>>, NoReply)
    /\ UNCHANGED <<MAX_HISTORY_MESSAGES, RATE_LIMIT_SECONDS, now, grants>>

\* sidebar_settings: the Update System Prompt button
UpdateSystemPrompt ==
    \E text \in SystemPrompts :
        /\ ss' = update_system_prompt(ss, text)
        /\ notices' = <<PromptUpdatedSuccess>>
        /\ posts' = <<>>
        /\ event' = Event("update_system_prompt", text, NoReply)
        /\ UNCHANGED <<MAX_HISTORY_MESSAGES, RATE_LIMIT_SECONDS, now, grants>>

\* the clock advances between script runs
Tick ==
    /\ now < MaxTime
    /\ now' = now + 1
    /\ UNCHANGED <<ss, MAX_HISTORY_MESSAGES, RATE_LIMIT_SECONDS, event, notices, posts, grants>>

Next == ChatInput \/ QuickPrompt \/ ResetChat \/ UpdateSystemPrompt \/ Tick

Spec == Init /\ [][Next]_vars

\* ------------------------------------------------------------- properties
TurnOps == {"chat_input", "quick_prompt"}
\* the step is a script run that handles a chat input or a quick prompt (the
\* other script runs record another event, the clock tick changes now)
IsTurn == event'.op \in TurnOps /\ now' = now
\* the last script run handled a chat input or a quick prompt
WasTurn == event.op \in TurnOps
Errors(ns) == SelectSeq(ns, LAMBDA n : n.level = "error")
Last(s) == s[Len(s)]

\* the completion call returned a body with a first choice that has a text
WellFormed(reply) ==
    /\ reply.exc = "none"
    /\ reply.hasChoices
    /\ reply.choices # <<>>
    /\ reply.choices[1].hasText

\* t is s without its leading and trailing whitespace
IsTrimOf(t, s) ==
    \E a \in 0..Len(s), b \in 0..Len(s) :
        /\ a + b <= Len(s)
        /\ t = SubSeq(s, a + 1, Len(s) - b)
        /\ \A i \in 1..a : s[i] \in Whitespace
        /\ \A i \in (Len(s) - b + 1)..Len(s) : s[i] \in Whitespace
        /\ t # <<>> => (t[1] \notin Whitespace /\ t[Len(t)] \notin Whitespace)

\* number of "Human: ..." and "Assistant: ..." lines of a prompt
MessageLines(prompt) ==
    LET lines == split_lines(prompt)
    IN  Cardinality({i \in 1..Len(lines) :
            \/ IsPrefix(HumanRole \o Space, lines[i])
            \/ IsPrefix(AssistantRole \o Space, lines[i])})

\* C1: without a reset, every step leaves the old message log as a prefix of
\* the new one: the log only grows by appending at the end.
C1_LogOnlyGrowsByAppend ==
    [][(~ResetChat) => IsPrefix(ss.messages, ss'.messages)]_vars

\* a failed turn followed by a successful one: user, user, assistant
C1_Witness ==
    /\ Len(ss.messages) = 3
    /\ ss.messages[1].role = "user"
    /\ ss.messages[2].role = "user"
    /\ ss.messages[3].role = "assistant"
    /\ event.op = "chat_input"

\* C2: any two times at which the rate limiter returned true are at least
\* RATE_LIMIT_SECONDS apart.
C2_GatesAtLeastIntervalApart ==
    \A t1 \in grants, t2 \in grants :
        t1 < t2 => t2 - t1 >= RATE_LIMIT_SECONDS

\* two gates exactly one interval of two ticks apart, and a turn at the time
\* of the second one denied: the wait before it earned no extra credit
C2_Witness ==
    /\ RATE_LIMIT_SECONDS = 2
    /\ \E t1 \in grants, t2 \in grants : t1 < t2 /\ now = t2
    /\ ss.last_request_time = now
    /\ WasTurn
    /\ notices = <<RateLimitWarning>>

\* C3 (as claimed): a turn with an empty or whitespace-only input only warns
\* about the empty message and leaves the session state, last_request_time
\* included, unchanged: the rate limiter is not consulted.
C3_ValidationBeforeRateLimit ==
    [][(IsTurn /\ strip(event'.user_input) = <<>>)
        => (ss' = ss /\ grants' = grants /\ notices' = <<EmptyWarning>>)]_vars

\* C4: a turn whose completion call was issued and did not yield a first
\* choice with a text appends the user message and nothing else, and reports
\* an error.
C4_FailedCallKeepsOnlyUserTurn ==
    [][(IsTurn /\ posts' # <<>> /\ ~WellFormed(event'.reply))
        => /\ ss'.messages = Append(ss.messages, Message("user", event'.user_input))
           /\ Errors(notices') # <<>>]_vars

\* a timed-out call of a turn submitted to a log that was not empty
C4_Witness ==
    /\ WasTurn
    /\ event.reply.exc = "Timeout"
    /\ posts # <<>>
    /\ Len(ss.messages) = 2
    /\ Last(ss.messages) = Message("user", event.user_input)
    /\ notices = <<TimeoutError, NoValidResponseError>>

FailureKind(exc) ==
    IF exc = "Timeout" THEN TimeoutError
    ELSE IF exc = "ConnectionError" THEN ApiError
    ELSE InvalidResponseError

\* C5 (as claimed): a turn issues at most one POST and shows at most one
\* error, and a call that raised is shown as exactly one error of its kind.
C5_FailureSurfacedOnce ==
    WasTurn =>
        /\ Len(posts) <= 1
        /\ Len(Errors(notices)) <= 1
        /\ (posts # <<>> /\ event.reply.exc # "none")
              => Errors(notices) = <<FailureKind(event.reply.exc)>>

ExpectedPrompt ==
    <<"S", "y", "s", "t", "e", "m", ":", " ", "B", "e", " ", "t", "e", "r", "s", "e",
       ".", "\n", "H", "u", "m", "a", "n", ":", " ", "H", "i", "\n", "A", "s", "s", "i",
       "s", "t", "a", "n", "t", ":">>

\* C6 (as claimed): with system prompt "Be terse.", an empty log and input
\* "Hi", the prompt that is sent is "System: Be terse.\nHuman: Hi\nAssistant:".
C6_ExamplePrompt ==
    [][(IsTurn /\ ss.messages = <<>> /\ ss.system_prompt = BeTerse
          /\ event'.user_input = Hi /\ posts' # <<>>)
        => posts'[1].prompt = ExpectedPrompt]_vars

\* C7 (as claimed): whatever the log and the window, the prompt built for a
\* new input has at most MAX_HISTORY_MESSAGES message lines from the log
\* besides the line of the input, ends with the line "Assistant:", and the
\* session state is as before.
C7_WindowBoundsPrompt ==
    \A u \in UserInputs :
        LET built == build_prompt_with_history(ss, u)
        IN  /\ MessageLines(built.prompt) - 1 <= MAX_HISTORY_MESSAGES
            /\ Last(split_lines(built.prompt)) = AssistantRole
            /\ built.ss = ss

\* C8: a turn at a time less than RATE_LIMIT_SECONDS after last_request_time
\* changes nothing in the session state, sends nothing and only warns about
\* the wait.
C8_DeniedTurnChangesNothing ==
    [][(IsTurn /\ now - ss.last_request_time < RATE_LIMIT_SECONDS)
        => /\ ss' = ss
           /\ posts' = <<>>
           /\ grants' = grants
           /\ notices' = <<RateLimitWarning>>]_vars

\* a valid input denied while the log is not empty
C8_Witness ==
    /\ WasTurn
    /\ event.user_input = Hi
    /\ notices = <<RateLimitWarning>>
    /\ now - ss.last_request_time < RATE_LIMIT_SECONDS
    /\ ss.messages # <<>>
    /\ posts = <<>>

\* C9: a turn whose call returns a first choice with a text appends the user
\* message and then one assistant message whose content is that text without
\* its leading and trailing whitespace; " hi " gives "hi".
C9_AssistantTurnIsTrimmedFirstChoice ==
    [][(IsTurn /\ posts' # <<>> /\ WellFormed(event'.reply))
        => /\ Len(ss'.messages) = Len(ss.messages) + 2
           /\ SubSeq(ss'.messages, 1, Len(ss.messages) + 1)
                 = Append(ss.messages, Message("user", event'.user_input))
           /\ Last(ss'.messages).role = "assistant"
           /\ IsTrimOf(Last(ss'.messages).content, event'.reply.choices[1].text)
           /\ (event'.reply.choices[1].text = PaddedHi
                 => Last(ss'.messages).content = TrimmedHi)]_vars

C9_Witness ==
    /\ WasTurn
    /\ WellFormed(event.reply)
    /\ event.reply.choices[1].text = PaddedHi
    /\ Len(ss.messages) >= 2
    /\ Last(ss.messages) = Message("assistant", TrimmedHi)
    /\ ss.messages[Len(ss.messages) - 1] = Message("user", event.user_input)

\* C10: the reset empties the message log and leaves system_prompt and
\* last_request_time as they were.
C10_ResetClearsOnlyMessages ==
    [][ResetChat
        => /\ ss'.messages = <<>>
           /\ ss'.system_prompt = ss.system_prompt
           /\ ss'.last_request_time = ss.last_request_time]_vars

\* a reset of a session with an edited system prompt after a turn
C10_Witness ==
    /\ event.op = "reset"
    /\ ss.messages = <<>>
    /\ ss.system_prompt = BeTerse
    /\ ss.last_request_time > 0
    /\ notices = <<ResetSuccess>>

====
